---- MODULE Spec2Model ----
(***************************************************************************)
(* Model of models_src/pruning_run.py (class PruningRun) and               *)
(* models_src/pruning_callback.py (class PruningCallback).                 *)
(*                                                                         *)
(* A weight tensor is kept in its row-major memory layout: a function      *)
(* from the flat index 0..Size-1 to the weight.  Weights are integers in   *)
(* units of 0.01.  models_src/weight_mask.py (class WeightMask) is not     *)
(* part of the sources at hand; its four methods are modelled from their   *)
(* contract.                                                               *)
(***************************************************************************)
EXTENDS Integers, Sequences, FiniteSets, TLC

VARIABLES
    model_path,               \* self.model_path: a sequence of path tokens
    shape,                    \* shape of every tensor of model.get_weights()
    weights,                  \* self.model.get_weights()
    compiled,                 \* whether self.model carries a compiled state
    mask,                     \* self.mask (WeightMask)
    pc,                       \* position of the running call
    op,                       \* the PruningRun method that is running
    layer_index,              \* argument of prune_layer / ..._no_retraining
    threshold,                \* argument of prune_layer / ..._no_retraining
    epochs,                   \* argument of prune_layer
    number_of_pruned_values,  \* local counter of the pruning loop
    epoch,                    \* epochs completed by the running fit
    artifacts,                \* files written by the running call
    result,                   \* value returned or exception raised by the call
    entry,                    \* weights and mask at the start of the call
    last                      \* the prune_layer_no_retraining call that
                              \* returned last, if no other call followed:
                              \* a set of at most one record

vars == <<model_path, shape, weights, compiled, mask, pc, op, layer_index,
          threshold, epochs, number_of_pruned_values, epoch, artifacts,
          result, entry, last>>

None == "None"

(***************************************************************************)
(* Bounds                                                                  *)
(***************************************************************************)
\* largest epochs argument passed to prune_layer
MaxEpochs == 1
\* largest threshold passed to a pruning call (0.31)
MaxThreshold == 31
\* largest magnitude of a weight of the two-layer models (0.25, which is
\* also a threshold)
MaxWeight == 25

\* epochs of the final retraining of prune_layer
FinalEpochs == 20

\* weights a two-layer model holds after loading or after a training epoch
WeightValues == {-1, 0, MaxWeight}
\* weights of the loaded single-layer models
ScenarioValues == {0, 1, 20, -25, 30, 50}
\* threshold arguments
Thresholds == {25, MaxThreshold}
\* epochs arguments
EpochArgs == 0..MaxEpochs

\* tensor shapes of the loaded models
SmallShape == <<  <<2, 1>>, <<1, 2>>  >>
ScenarioShapes == { << <<4>> >>, << <<2, 2>> >> }

\* model_path values: of the two-layer models, of the single-layer models
ModelPaths == { <<"/", "models", "/", "model.h5">> }
ScenarioPaths == { <<"/", "models", "/", "model.h5">>, <<"model.h5">>,
                   <<"/", "model.h5">>, <<"models", "/", "model.h5">> }

(***************************************************************************)
(* Tensors                                                                 *)
(***************************************************************************)
Size(sh) == IF Len(sh) = 1 THEN sh[1] ELSE sh[1] * sh[2]

Layers == 0..(Len(shape) - 1)
ShapeOf(l) == shape[l + 1]
Flat(l) == 0..(Size(ShapeOf(l)) - 1)

\* np.unravel_index(k, shape): flat index to multi-index, row-major
unravel_index(k, sh) ==
    IF Len(sh) = 1 THEN <<k>> ELSE << k \div sh[2], k % sh[2] >>

\* tensor[idx]: position of a multi-index in the row-major layout
ravel(idx, sh) ==
    IF Len(sh) = 1 THEN idx[1] ELSE idx[1] * sh[2] + idx[2]

\* np.abs
Abs(x) == IF x < 0 THEN -x ELSE x

\* all tensors lists of shape shp with entries in vals
Tensors(shp, vals) ==
    LET sizes == { Size(shp[i]) : i \in 1..Len(shp) }
        flat  == UNION { [ 0..(n - 1) -> vals ] : n \in sizes }
    IN  { t \in [ 0..(Len(shp) - 1) -> flat ] :
            \A l \in 0..(Len(shp) - 1) :
                DOMAIN t[l] = 0..(Size(shp[l + 1]) - 1) }

(***************************************************************************)
(* WeightMask                                                              *)
(***************************************************************************)
\* WeightMask(model): an all-ones mask of the model's shapes
WeightMask(shp) ==
    [ l \in 0..(Len(shp) - 1) |-> [ k \in 0..(Size(shp[l + 1]) - 1) |-> 1 ] ]

\* WeightMask.prune_parameter(layer_index, prune_index)
prune_parameter(m, l, idx) ==
    [ m EXCEPT ![l][ravel(idx, ShapeOf(l))] = 0 ]

\* WeightMask.apply_mask(model): multiplies the weights with the mask
apply_mask(w, m) ==
    [ l \in DOMAIN w |-> [ k \in DOMAIN w[l] |-> w[l][k] * m[l][k] ] ]

\* unit j of layer lower is pruned when its whole column of the mask is 0
UnitPruned(m, lower, j) ==
    \A i \in 0..(ShapeOf(lower)[1] - 1) :
        m[lower][ravel(<<i, j>>, ShapeOf(lower))] = 0

\* WeightMask.propagate_pruning(lower, higher): the weights that leave a
\* pruned unit of the lower layer are pruned in the higher layer
mask_propagate_pruning(m, lower, higher) ==
    [ m EXCEPT ![higher] =
        [ k \in DOMAIN m[higher] |->
            IF UnitPruned(m, lower, unravel_index(k, ShapeOf(higher))[1])
            THEN 0 ELSE m[higher][k] ] ]

\* WeightMask.get_mask()
get_mask(m) == m

\* layer pairs propagate_pruning is called with: two matrices, the units of
\* the lower one feeding the higher one
PropagatePairs ==
    { p \in Layers \X Layers :
        /\ p[1] < p[2]
        /\ Len(ShapeOf(p[1])) = 2 /\ Len(ShapeOf(p[2])) = 2
        /\ ShapeOf(p[1])[2] = ShapeOf(p[2])[1] }

(***************************************************************************)
(* PruningRun: helpers                                                     *)
(***************************************************************************)
\* the weights read without np.abs
prunable_weights_signed(w, l) == [ k \in DOMAIN w[l] |-> w[l][k] ]

\* np.abs(self.model.get_weights()[layer_index])
prunable_weights(w, l) == [ k \in DOMAIN w[l] |-> Abs(w[l][k]) ]

\* len(prunable_weights): the length of the first axis
max_weights_rows(pw) == ShapeOf(layer_index)[1]

\* len(prunable_weights.flatten())
max_weights(pw) == Cardinality(DOMAIN pw)

\* np.argmin(pw): the first minimum, zeros included
ma_argmin_unmasked(pw) ==
    CHOOSE k \in DOMAIN pw :
        \A j \in DOMAIN pw : pw[k] < pw[j] \/ (pw[k] = pw[j] /\ k <= j)

\* np.ma.argmin(np.ma.MaskedArray(pw, pw == 0)): the masked entries are
\* filled with the largest value, the first minimum of the rest is returned;
\* with every entry masked the result is 0
ma_argmin(pw) ==
    IF \A k \in DOMAIN pw : pw[k] = 0
    THEN 0
    ELSE CHOOSE k \in DOMAIN pw :
            /\ pw[k] # 0
            /\ \A j \in DOMAIN pw :
                  pw[j] # 0 => (pw[k] < pw[j] \/ (pw[k] = pw[j] /\ k <= j))

\* prune_index of the current iteration
prune_index(w, l) == unravel_index(ma_argmin(prunable_weights(w, l)), ShapeOf(l))

\* pruned_value = prunable_weights[prune_index]
pruned_value(w, l) ==
    prunable_weights(w, l)[ravel(prune_index(w, l), ShapeOf(l))]

\* the condition with pruned_value <= threshold
accepts_inclusive(pv, thr, n, maxw) == 0 < pv /\ pv <= thr /\ n < maxw

\* the condition with 0 <= pruned_value
accepts_zero(pv, thr, n, maxw) == 0 <= pv /\ pv < thr /\ n < maxw

\* the condition reduced to the comparison with the threshold
accepts_below_threshold(pv, thr, n, maxw) == pv < thr

\* the condition of the if statement of the pruning loop
accepts(pv, thr, n, maxw) == 0 < pv /\ pv < thr /\ n < maxw

Accepted ==
    accepts(pruned_value(weights, layer_index), threshold,
            number_of_pruned_values,
            max_weights(prunable_weights(weights, layer_index)))

\* the zero entries counted instead of the nonzero ones
count_zero(t) == Cardinality({ k \in DOMAIN t : t[k] = 0 })

\* np.count_nonzero(layer)
count_nonzero(t) == Cardinality({ k \in DOMAIN t : t[k] # 0 })

\* the sum that leaves out the first tensor
RECURSIVE SumLayersFromSecond(_, _)
SumLayersFromSecond(m, n) ==
    IF n <= 1 THEN 0
    ELSE SumLayersFromSecond(m, n - 1) + count_nonzero(m[n - 1])

RECURSIVE SumLayers(_, _)
SumLayers(m, n) ==
    IF n = 0 THEN 0 ELSE SumLayers(m, n - 1) + count_nonzero(m[n - 1])

\* PruningRun.get_remaining_weights_number()
get_remaining_weights_number(m) == SumLayers(get_mask(m), Len(shape))

\* str(n) for n >= 0: the decimal digits
Digit(d) == <<"0", "1", "2", "3", "4", "5", "6", "7", "8", "9">>[d + 1]

RECURSIVE str(_)
str(n) == IF n < 10 THEN << Digit(n) >>
          ELSE str(n \div 10) \o << Digit(n % 10) >>

\* position of the last "/" of p, 0 if there is none
LastSlash(p) ==
    IF \E i \in 1..Len(p) : p[i] = "/"
    THEN CHOOSE i \in 1..Len(p) :
            p[i] = "/" /\ \A j \in (i + 1)..Len(p) : p[j] # "/"
    ELSE 0

RECURSIVE rstrip_slash(_)
rstrip_slash(p) ==
    IF p # <<>> /\ p[Len(p)] = "/" THEN rstrip_slash(SubSeq(p, 1, Len(p) - 1))
    ELSE p

\* os.path.split(p): <<head, tail>>; the head loses its trailing slashes
\* unless it consists of slashes only
os_path_split(p) ==
    LET i    == LastSlash(p)
        head == SubSeq(p, 1, i)
        tail == SubSeq(p, i + 1, Len(p))
    IN  << IF \E j \in 1..Len(head) : head[j] # "/"
           THEN rstrip_slash(head) ELSE head,
           tail >>

\* the path save_pruned_model writes to
save_path(mp, rem) ==
    LET path_for_saving == os_path_split(mp)[1]
        file_name       == os_path_split(mp)[2]
    IN  path_for_saving \o <<"/">> \o <<"Remaining_weights">> \o str(rem)
            \o <<"_noretrain_">> \o file_name

\* PruningRun.save_pruned_model(): the file written for model w and mask m
save_pruned_model(w, m) ==
    [ path |-> save_path(model_path, get_remaining_weights_number(m)),
      weights |-> w ]

\* a hook that leaves the model as the epoch left it
on_epoch_end_idle(w, m) == w

\* PruningCallback.on_epoch_end: the model's weights after the hook
on_epoch_end(w, m) == apply_mask(w, m)

(***************************************************************************)
(* PruningRun: construction                                                *)
(***************************************************************************)
\* the exceptions that leave a method: load_model fails, fit is called on
\* a model that was never compiled, fit fails, model.save fails
Exceptions == {"load failed", "fit on uncompiled model", "fit failed",
               "save failed"}

\* the locals of a call, when no call is running
NoCall ==
    /\ pc = "idle" /\ op = None
    /\ layer_index = None /\ threshold = None /\ epochs = None
    /\ number_of_pruned_values = 0 /\ epoch = 0
    /\ artifacts = <<>> /\ result = None /\ entry = None

\* PruningRun.__init__ on a model loaded from one of paths, of shapes shp
\* and weights in vals
Constructed(paths, shp, vals) ==
    /\ model_path \in paths
    /\ shape = shp
    /\ weights \in Tensors(shp, vals)
    /\ compiled \in BOOLEAN
    /\ mask = WeightMask(shp)
    /\ last = {}
    /\ NoCall

\* PruningRun.__init__ when load_model raises: no model, no mask
LoadFailed(paths) ==
    /\ model_path \in paths
    /\ shape = <<>> /\ weights = <<>> /\ mask = <<>>
    /\ compiled = FALSE
    /\ pc = "error" /\ op = "__init__" /\ result = "load failed"
    /\ layer_index = None /\ threshold = None /\ epochs = None
    /\ number_of_pruned_values = 0 /\ epoch = 0
    /\ artifacts = <<>> /\ entry = None /\ last = {}

Init ==
    \/ Constructed(ModelPaths, SmallShape, WeightValues)
    \/ LoadFailed(ModelPaths)

InitScenario ==
    \E shp \in ScenarioShapes :
        Constructed(ScenarioPaths, shp, ScenarioValues)

(***************************************************************************)
(* PruningRun.prune_layer                                                  *)
(***************************************************************************)
prune_layer_call ==
    /\ pc = "idle"
    /\ \E l \in Layers, t \in Thresholds, e \in EpochArgs :
          /\ layer_index' = l
          /\ threshold' = t
          /\ epochs' = e
    /\ op' = "prune_layer"
    /\ number_of_pruned_values' = 0
    /\ entry' = [ mask |-> mask ]
    /\ pc' = "pl_loop"
    /\ last' = {}
    /\ UNCHANGED <<model_path, shape, weights, compiled, mask, epoch,
                   artifacts, result>>

\* an accepted iteration that builds a new WeightMask before it prunes
prune_layer_accept_new_mask ==
    /\ pc = "pl_loop"
    /\ Accepted
    /\ mask' = prune_parameter(WeightMask(shape), layer_index,
                               prune_index(weights, layer_index))
    /\ weights' = apply_mask(weights, mask')
    /\ compiled' = TRUE
    /\ epoch' = 0
    /\ pc' = "pl_fit"
    /\ UNCHANGED <<last, model_path, shape, op, layer_index, threshold, epochs,
                   number_of_pruned_values, artifacts, result, entry>>

\* an accepted iteration up to the start of fit: prune_parameter,
\* apply_mask, compile
prune_layer_accept ==
    /\ pc = "pl_loop"
    /\ Accepted
    /\ mask' = prune_parameter(mask, layer_index,
                               prune_index(weights, layer_index))
    /\ weights' = apply_mask(weights, mask')
    /\ compiled' = TRUE
    /\ epoch' = 0
    /\ pc' = "pl_fit"
    /\ UNCHANGED <<last, model_path, shape, op, layer_index, threshold, epochs,
                   number_of_pruned_values, artifacts, result, entry>>

\* one epoch of weight updates of the retraining fit
prune_layer_fit_epoch ==
    /\ pc = "pl_fit"
    /\ epoch < epochs
    /\ weights' \in Tensors(shape, WeightValues)
    /\ pc' = "pl_epoch_end"
    /\ UNCHANGED <<last, model_path, shape, compiled, mask, op, layer_index,
                   threshold, epochs, number_of_pruned_values, epoch,
                   artifacts, result, entry>>

\* the retraining fit called without the PruningCallback
prune_layer_epoch_end_no_callback ==
    /\ pc = "pl_epoch_end"
    /\ weights' = weights
    /\ epoch' = epoch + 1
    /\ pc' = "pl_fit"
    /\ UNCHANGED <<last, model_path, shape, compiled, mask, op, layer_index,
                   threshold, epochs, number_of_pruned_values, artifacts,
                   result, entry>>

\* the PruningCallback of the retraining fit
prune_layer_epoch_end ==
    /\ pc = "pl_epoch_end"
    /\ weights' = on_epoch_end(weights, mask)
    /\ epoch' = epoch + 1
    /\ pc' = "pl_fit"
    /\ UNCHANGED <<last, model_path, shape, compiled, mask, op, layer_index,
                   threshold, epochs, number_of_pruned_values, artifacts,
                   result, entry>>

\* fit returns; number_of_pruned_values += 1
prune_layer_fit_return ==
    /\ pc = "pl_fit"
    /\ epoch = epochs
    /\ number_of_pruned_values' = number_of_pruned_values + 1
    /\ pc' = "pl_loop"
    /\ UNCHANGED <<last, model_path, shape, weights, compiled, mask, op,
                   layer_index, threshold, epochs, epoch, artifacts, result,
                   entry>>

\* break, and the call of the final fit: fit raises on a model that was
\* never compiled
prune_layer_break ==
    /\ pc = "pl_loop"
    /\ ~Accepted
    /\ epoch' = 0
    /\ pc' = IF compiled THEN "final_fit" ELSE "error"
    /\ result' = IF compiled THEN result ELSE "fit on uncompiled model"
    /\ UNCHANGED <<last, model_path, shape, weights, compiled, mask, op,
                   layer_index, threshold, epochs, number_of_pruned_values,
                   artifacts, entry>>

\* the exception of fit caught inside the method, which goes on with the
\* step after the fit
fit_raises_swallowed ==
    /\ \/ pc = "pl_fit" /\ epoch < epochs
       \/ pc = "pl_epoch_end"
       \/ pc = "final_fit" /\ epoch < FinalEpochs
       \/ pc = "final_epoch_end"
    /\ pc' = IF pc \in {"pl_fit", "pl_epoch_end"} THEN "pl_fit" ELSE "final_fit"
    /\ epoch' = IF pc \in {"pl_fit", "pl_epoch_end"} THEN epochs ELSE FinalEpochs
    /\ result' = "fit failed"
    /\ UNCHANGED <<last, model_path, shape, weights, compiled, mask, op,
                   layer_index, threshold, epochs, number_of_pruned_values,
                   artifacts, entry>>

\* fit raises: before an epoch's updates, or after them and before the
\* hook has run; the fit and its epoch count are gone
fit_raises ==
    /\ \/ pc = "pl_fit" /\ epoch < epochs
       \/ pc = "pl_epoch_end"
       \/ pc = "final_fit" /\ epoch < FinalEpochs
       \/ pc = "final_epoch_end"
    /\ pc' = "error"
    /\ result' = "fit failed"
    /\ epoch' = 0
    /\ UNCHANGED <<last, model_path, shape, weights, compiled, mask, op,
                   layer_index, threshold, epochs, number_of_pruned_values,
                   artifacts, entry>>

\* one epoch of weight updates of the final retraining
final_fit_epoch ==
    /\ pc = "final_fit"
    /\ epoch < FinalEpochs
    /\ weights' \in Tensors(shape, WeightValues)
    /\ pc' = "final_epoch_end"
    /\ UNCHANGED <<last, model_path, shape, compiled, mask, op, layer_index,
                   threshold, epochs, number_of_pruned_values, epoch,
                   artifacts, result, entry>>

\* the PruningCallback of the final retraining
final_epoch_end ==
    /\ pc = "final_epoch_end"
    /\ weights' = on_epoch_end(weights, mask)
    /\ epoch' = epoch + 1
    /\ pc' = "final_fit"
    /\ UNCHANGED <<last, model_path, shape, compiled, mask, op, layer_index,
                   threshold, epochs, number_of_pruned_values, artifacts,
                   result, entry>>

\* the final fit returns; save_pruned_model
prune_layer_save ==
    /\ pc = "final_fit"
    /\ epoch = FinalEpochs
    /\ artifacts' = Append(artifacts, save_pruned_model(weights, mask))
    /\ pc' = "done"
    /\ UNCHANGED <<last, model_path, shape, weights, compiled, mask, op,
                   layer_index, threshold, epochs, number_of_pruned_values,
                   epoch, result, entry>>

\* the final fit returns; model.save raises in save_pruned_model
prune_layer_save_raises ==
    /\ pc = "final_fit"
    /\ epoch = FinalEpochs
    /\ pc' = "error"
    /\ result' = "save failed"
    /\ UNCHANGED <<last, model_path, shape, weights, compiled, mask, op,
                   layer_index, threshold, epochs, number_of_pruned_values,
                   epoch, artifacts, entry>>

(***************************************************************************)
(* PruningRun.prune_layer_no_retraining                                    *)
(***************************************************************************)
prune_layer_no_retraining_call ==
    /\ pc = "idle"
    /\ \E l \in Layers, t \in Thresholds :
          /\ layer_index' = l
          /\ threshold' = t
    /\ op' = "prune_layer_no_retraining"
    /\ number_of_pruned_values' = 0
    /\ entry' = [ weights |-> weights, mask |-> mask ]
    /\ pc' = "nr_loop"
    /\ UNCHANGED <<last, model_path, shape, weights, compiled, mask, epochs,
                   epoch, artifacts, result>>

\* an accepted iteration that does not apply the mask to the model
no_retraining_accept_not_applied ==
    /\ pc = "nr_loop"
    /\ Accepted
    /\ mask' = prune_parameter(mask, layer_index,
                               prune_index(weights, layer_index))
    /\ weights' = weights
    /\ number_of_pruned_values' = number_of_pruned_values + 1
    /\ UNCHANGED <<last, model_path, shape, compiled, pc, op, layer_index,
                   threshold, epochs, epoch, artifacts, result, entry>>

\* an accepted iteration: prune_parameter, apply_mask, counter
no_retraining_accept ==
    /\ pc = "nr_loop"
    /\ Accepted
    /\ mask' = prune_parameter(mask, layer_index,
                               prune_index(weights, layer_index))
    /\ weights' = apply_mask(weights, mask')
    /\ number_of_pruned_values' = number_of_pruned_values + 1
    /\ UNCHANGED <<last, model_path, shape, compiled, pc, op, layer_index,
                   threshold, epochs, epoch, artifacts, result, entry>>

\* break followed by an epoch of training before the save
no_retraining_break_trained ==
    /\ pc = "nr_loop"
    /\ ~Accepted
    /\ compiled' = TRUE
    /\ \E w \in Tensors(shape, WeightValues) :
          /\ weights' = on_epoch_end(w, mask)
          /\ artifacts' = Append(artifacts, save_pruned_model(weights', mask))
    /\ pc' = "done"
    /\ UNCHANGED <<last, model_path, shape, mask, op, layer_index, threshold,
                   epochs, number_of_pruned_values, epoch, result, entry>>

\* break, compile, save_pruned_model
no_retraining_break ==
    /\ pc = "nr_loop"
    /\ ~Accepted
    /\ compiled' = TRUE
    /\ artifacts' = Append(artifacts, save_pruned_model(weights, mask))
    /\ pc' = "done"
    /\ UNCHANGED <<last, model_path, shape, weights, mask, op, layer_index,
                   threshold, epochs, number_of_pruned_values, epoch, result,
                   entry>>

\* break, compile; model.save raises in save_pruned_model
no_retraining_save_raises ==
    /\ pc = "nr_loop"
    /\ ~Accepted
    /\ compiled' = TRUE
    /\ pc' = "error"
    /\ result' = "save failed"
    /\ UNCHANGED <<last, model_path, shape, weights, mask, op, layer_index,
                   threshold, epochs, number_of_pruned_values, epoch,
                   artifacts, entry>>

(***************************************************************************)
(* The other methods                                                       *)
(***************************************************************************)
\* propagate_pruning that saves without applying the mask to the model
propagate_pruning_not_applied ==
    /\ pc = "idle"
    /\ \E p \in PropagatePairs :
          /\ mask' = mask_propagate_pruning(mask, p[1], p[2])
          /\ weights' = weights
          /\ artifacts' = Append(artifacts, save_pruned_model(weights', mask'))
    /\ op' = "propagate_pruning"
    /\ entry' = [ weights |-> weights, mask |-> mask ]
    /\ pc' = "done"
    /\ last' = {}
    /\ UNCHANGED <<model_path, shape, compiled, layer_index, threshold,
                   epochs, number_of_pruned_values, epoch, result>>

\* PruningRun.propagate_pruning(lower, higher)
propagate_pruning ==
    /\ pc = "idle"
    /\ \E p \in PropagatePairs :
          /\ mask' = mask_propagate_pruning(mask, p[1], p[2])
          /\ weights' = apply_mask(weights, mask')
          /\ artifacts' = Append(artifacts, save_pruned_model(weights', mask'))
    /\ op' = "propagate_pruning"
    /\ entry' = [ weights |-> weights, mask |-> mask ]
    /\ pc' = "done"
    /\ last' = {}
    /\ UNCHANGED <<model_path, shape, compiled, layer_index, threshold,
                   epochs, number_of_pruned_values, epoch, result>>

\* propagate_pruning when model.save raises in save_pruned_model
propagate_pruning_save_raises ==
    /\ pc = "idle"
    /\ \E p \in PropagatePairs :
          /\ mask' = mask_propagate_pruning(mask, p[1], p[2])
          /\ weights' = apply_mask(weights, mask')
    /\ op' = "propagate_pruning"
    /\ entry' = [ weights |-> weights, mask |-> mask ]
    /\ pc' = "error"
    /\ result' = "save failed"
    /\ last' = {}
    /\ UNCHANGED <<model_path, shape, compiled, layer_index, threshold,
                   epochs, number_of_pruned_values, epoch, artifacts>>

\* PruningRun.save_pruned_model() called by the user; model.save raises
save_pruned_model_call_raises ==
    /\ pc = "idle"
    /\ op' = "save_pruned_model"
    /\ pc' = "error"
    /\ result' = "save failed"
    /\ last' = {}
    /\ UNCHANGED <<model_path, shape, weights, compiled, mask, layer_index,
                   threshold, epochs, number_of_pruned_values, epoch,
                   artifacts, entry>>

\* PruningRun.save_pruned_model() called by the user
save_pruned_model_call ==
    /\ pc = "idle"
    /\ artifacts' = Append(artifacts, save_pruned_model(weights, mask))
    /\ op' = "save_pruned_model"
    /\ pc' = "done"
    /\ last' = {}
    /\ UNCHANGED <<model_path, shape, weights, compiled, mask, layer_index,
                   threshold, epochs, number_of_pruned_values, epoch, result,
                   entry>>

\* PruningRun.get_remaining_weights_number() called by the user
get_remaining_weights_number_call ==
    /\ pc = "idle"
    /\ result' = get_remaining_weights_number(mask)
    /\ op' = "get_remaining_weights_number"
    /\ pc' = "done"
    /\ last' = {}
    /\ UNCHANGED <<model_path, shape, weights, compiled, mask, layer_index,
                   threshold, epochs, number_of_pruned_values, epoch,
                   artifacts, entry>>

\* the call has returned: the caller goes on.  An exception is fatal, the
\* run ends with it.
Return ==
    /\ pc = "done"
    /\ pc' = "idle" /\ op' = None
    /\ layer_index' = None /\ threshold' = None /\ epochs' = None
    /\ number_of_pruned_values' = 0 /\ epoch' = 0
    /\ artifacts' = <<>> /\ result' = None /\ entry' = None
    /\ last' = IF op = "prune_layer_no_retraining"
               THEN { [ layer_index |-> layer_index,
                        threshold |-> threshold,
                        path |-> artifacts[Len(artifacts)].path ] }
               ELSE {}
    /\ UNCHANGED <<model_path, shape, weights, compiled, mask>>

Next ==
    \/ prune_layer_call
    \/ prune_layer_accept
    \/ prune_layer_fit_epoch
    \/ prune_layer_epoch_end
    \/ prune_layer_fit_return
    \/ prune_layer_break
    \/ final_fit_epoch
    \/ final_epoch_end
    \/ fit_raises
    \/ prune_layer_save
    \/ prune_layer_save_raises
    \/ prune_layer_no_retraining_call
    \/ no_retraining_accept
    \/ no_retraining_break
    \/ no_retraining_save_raises
    \/ propagate_pruning
    \/ propagate_pruning_save_raises
    \/ save_pruned_model_call
    \/ save_pruned_model_call_raises
    \/ get_remaining_weights_number_call
    \/ Return

Spec == Init /\ [][Next]_vars

\* prune_layer_no_retraining on the single-layer models
NextScenario ==
    \/ prune_layer_no_retraining_call
    \/ no_retraining_accept
    \/ no_retraining_break
    \/ no_retraining_save_raises
    \/ Return

SpecScenario == InitScenario /\ [][NextScenario]_vars

(***************************************************************************)
(* Properties                                                              *)
(***************************************************************************)
\* every pruned position of w holds weight 0
Consistent(w, m) ==
    \A l \in DOMAIN m : \A k \in DOMAIN m[l] : m[l][k] = 0 => w[l][k] = 0

InLoopCall == op \in {"prune_layer", "prune_layer_no_retraining"}

\* C1: monotonic mask.  Over every step of every PruningRun operation a
\* mask entry that is 0 stays 0: an entry that changes goes from 1 to 0.
C1_MonotonicMask ==
    [][ \A l \in Layers : \A k \in Flat(l) :
            mask'[l][k] # mask[l][k] => (mask[l][k] = 1 /\ mask'[l][k] = 0)
      ]_vars

\* propagate_pruning has returned on a mask that already had a pruned and
\* an unpruned entry in the higher layer: both are 0 now
C1_Witness ==
    /\ op = "propagate_pruning" /\ pc = "done"
    /\ \E k \in Flat(1) : entry.mask[1][k] = 0
    /\ \E k \in Flat(1) : entry.mask[1][k] = 1
    /\ \A k \in Flat(1) : mask[1][k] = 0

\* C2: weight/mask consistency.  At the end of every training epoch of
\* prune_layer (retraining and final retraining), after every mask edit
\* followed by apply_mask and at return, every position whose mask entry is
\* 0 holds weight 0; only between an epoch's updates and its hook (or when
\* fit raised there) may a pruned weight be nonzero.
C2_WeightMaskConsistency ==
    ( /\ pc \notin {"pl_epoch_end", "final_epoch_end"}
      /\ ~(pc = "error" /\ result = "fit failed") )
        => Consistent(weights, mask)

\* the final retraining has run all its epochs on a model with a pruned
\* position
C2_Witness ==
    /\ op = "prune_layer" /\ pc = "final_fit" /\ epoch = FinalEpochs
    /\ epochs = 1
    /\ number_of_pruned_values >= 1
    /\ \E k \in Flat(layer_index) : mask[layer_index][k] = 0

\* the layer weights 0.5, 0.01, 0.3, 0.2 of the scenario
ScenarioWeights == [ k \in 0..3 |-> <<50, 1, 30, 20>>[k + 1] ]

FreshCall ==
    /\ op = "prune_layer_no_retraining"
    /\ \A k \in Flat(layer_index) : entry.mask[layer_index][k] = 1

InScenario ==
    /\ FreshCall
    /\ entry.weights[layer_index] = ScenarioWeights
    /\ threshold = 25

\* C3: prune_layer_no_retraining on a fresh all-ones mask.  On return the
\* layer's mask is 0 exactly where the initial magnitude w has 0 < w <
\* threshold; at every moment the pruned positions are those of the smallest
\* eligible magnitudes (pruning goes by increasing magnitude); for weights
\* [0.5, 0.01, 0.3, 0.2] and threshold 0.25 the mask is [1,0,1,1] after one
\* step, [1,0,1,0] after two, the loop stops at 0.3 and 2 weights remain.
C3_NoRetrainingResult ==
    /\ (FreshCall /\ pc = "done") =>
          \A k \in Flat(layer_index) :
              mask[layer_index][k] =
                  IF /\ 0 < Abs(entry.weights[layer_index][k])
                     /\ Abs(entry.weights[layer_index][k]) < threshold
                  THEN 0 ELSE 1
    /\ FreshCall =>
          \A k \in Flat(layer_index), j \in Flat(layer_index) :
              ( /\ mask[layer_index][k] = 0
                /\ mask[layer_index][j] = 1
                /\ entry.weights[layer_index][j] # 0 ) =>
              /\ entry.weights[layer_index][k] # 0
              /\ Abs(entry.weights[layer_index][k])
                    <= Abs(entry.weights[layer_index][j])
    /\ InScenario =>
          /\ number_of_pruned_values <= 2
          /\ number_of_pruned_values = 1 =>
                mask[layer_index] = [ k \in 0..3 |-> <<1, 0, 1, 1>>[k + 1] ]
          /\ number_of_pruned_values = 2 =>
                mask[layer_index] = [ k \in 0..3 |-> <<1, 0, 1, 0>>[k + 1] ]
          /\ pc = "done" =>
                /\ number_of_pruned_values = 2
                /\ pruned_value(weights, layer_index) = 30
                /\ count_nonzero(get_mask(mask)[layer_index]) = 2

\* the scenario has returned
C3_Witness ==
    /\ InScenario /\ pc = "done"
    /\ mask[layer_index] = [ k \in 0..3 |-> <<1, 0, 1, 0>>[k + 1] ]

\* C4: termination bound.  In the pruning loop of prune_layer and of
\* prune_layer_no_retraining the number of accepted iterations never exceeds
\* the element count M of the layer, and once M iterations were accepted the
\* next iteration leaves the loop.
C4_TerminationBound ==
    InLoopCall =>
        /\ number_of_pruned_values <= Cardinality(Flat(layer_index))
        /\ ( /\ pc \in {"pl_loop", "nr_loop"}
             /\ number_of_pruned_values = Cardinality(Flat(layer_index)) )
           => ~Accepted

\* prune_layer has accepted as many iterations as the layer has elements
C4_Witness ==
    /\ op = "prune_layer" /\ pc = "pl_loop"
    /\ number_of_pruned_values = Cardinality(Flat(layer_index))

\* no weight of tensor t has a magnitude strictly between 0 and thr
NoneBelow(t, thr) == \A k \in DOMAIN t : ~(0 < Abs(t[k]) /\ Abs(t[k]) < thr)

\* C5: after prune_layer(layer_index, threshold, epochs) returns, no weight
\* of that layer, in the model in memory and in the saved model, has a
\* magnitude strictly between 0 and threshold.
C5_PrunedBelowThreshold ==
    (op = "prune_layer" /\ pc = "done") =>
        /\ NoneBelow(weights[layer_index], threshold)
        /\ \A i \in 1..Len(artifacts) :
              NoneBelow(artifacts[i].weights[layer_index], threshold)

\* C6: get_remaining_weights_number() is non-increasing: no step of a
\* pruning call (prune_layer, prune_layer_no_retraining, propagate_pruning)
\* raises the value it returns.
C6_RemainingNonIncreasing ==
    [][ get_remaining_weights_number(mask')
            <= get_remaining_weights_number(mask) ]_vars

\* prune_layer_no_retraining has returned with two weights fewer remaining
C6_Witness ==
    /\ op = "prune_layer_no_retraining" /\ pc = "done"
    /\ get_remaining_weights_number(mask) + 2
          = get_remaining_weights_number(entry.mask)

\* C7: in prune_layer, once the pruning loop has exited, one final
\* retraining of 20 epochs runs, whether or not a pruning step was accepted,
\* and the model is saved exactly once, after that retraining and not
\* before: the call ends having run the 20 epochs and written one file, and
\* no file is written earlier in the call.
C7_FinalRetrainingThenSave ==
    /\ (op = "prune_layer" /\ pc \in {"done", "error"}) =>
          /\ pc = "done"
          /\ epoch = FinalEpochs
          /\ Len(artifacts) = 1
    /\ (op = "prune_layer" /\ pc \notin {"done", "error"}) =>
          artifacts = <<>>

\* the directory a path lies in: absolute or relative, and the names of
\* the directories on the way
Directory(p) ==
    [ absolute |-> p # <<>> /\ p[1] = "/",
      names    |-> SelectSeq(SubSeq(p, 1, LastSlash(p)), LAMBDA c : c # "/") ]

\* the last component of a path
FileName(p) == SubSeq(p, LastSlash(p) + 1, Len(p))

\* C8: save_pruned_model writes a file named
\* Remaining_weights<N>_noretrain_<original_filename>, N being
\* get_remaining_weights_number() at save time, into the directory of
\* model_path, and never to model_path itself, for every model_path.
C8_SavePath ==
    \A i \in 1..Len(artifacts) :
        /\ FileName(artifacts[i].path) =
              <<"Remaining_weights">>
                \o str(get_remaining_weights_number(mask))
                \o <<"_noretrain_">> \o FileName(model_path)
        /\ Directory(artifacts[i].path) = Directory(model_path)
        /\ artifacts[i].path # model_path

\* C9: propagate_pruning applies the updated mask and saves at once.  On
\* return the model in memory and the one file written hold weight 0 at
\* every position whose mask entry is 0, the newly pruned ones included.
C9_PropagateApplied ==
    (op = "propagate_pruning" /\ pc = "done") =>
        /\ Consistent(weights, mask)
        /\ Len(artifacts) = 1
        /\ Consistent(artifacts[1].weights, mask)

\* propagate_pruning has pruned a position of the higher layer that held a
\* nonzero weight
C9_Witness ==
    /\ op = "propagate_pruning" /\ pc = "done"
    /\ \E k \in Flat(1) :
          /\ entry.mask[1][k] = 1 /\ mask[1][k] = 0
          /\ entry.weights[1][k] # 0

\* C10: prune_layer_no_retraining trains nothing.  On return a position of
\* layer_index either is as it was at the call, or was accepted and went
\* from mask 1 to mask 0 and weight 0; every weight and mask entry of every
\* other layer is as it was at the call.
C10_NoRetrainingFrame ==
    (op = "prune_layer_no_retraining" /\ pc = "done") =>
        \A l \in Layers : \A k \in Flat(l) :
            \/ /\ mask[l][k] = entry.mask[l][k]
               /\ weights[l][k] = entry.weights[l][k]
            \/ /\ l = layer_index
               /\ entry.mask[l][k] = 1 /\ mask[l][k] = 0
               /\ 0 < Abs(entry.weights[l][k])
               /\ Abs(entry.weights[l][k]) < threshold
               /\ weights[l][k] = 0

\* a call has returned that pruned in one layer and left nonzero weights
\* behind in both layers
C10_Witness ==
    /\ op = "prune_layer_no_retraining" /\ pc = "done"
    /\ number_of_pruned_values = 1
    /\ \E k \in Flat(layer_index) : weights[layer_index][k] # 0
    /\ \E l \in Layers : l # layer_index /\ \E k \in Flat(l) : weights[l][k] # 0

\* an exception has left the running method
Failed == op # "get_remaining_weights_number" /\ result \in Exceptions

\* C11: failures propagate and no step is skipped silently.  When
\* load_model, a fit or the save fails in the constructor, prune_layer,
\* prune_layer_no_retraining or propagate_pruning, the operation ends with
\* the exception: nothing has been saved, a failed constructor has built no
\* mask, and no later step of the operation (pruning iteration, final
\* retraining, save) is taken.
C11_FailuresPropagate ==
    /\ [](Failed => /\ pc = "error"
                    /\ artifacts = <<>>
                    /\ (op = "__init__" => mask = <<>>))
    /\ [](pc = "error" => Failed)
    /\ [][~Failed]_vars

\* a retraining fit of prune_layer has raised after a first pruning step
\* had been completed
C11_Witness ==
    /\ pc = "error" /\ op = "prune_layer"
    /\ result = "fit failed"
    /\ number_of_pruned_values = 1

\* the positions of all mask tensors, and their number
Positions ==
    { p \in Layers \X UNION { Flat(l) : l \in Layers } : p[2] \in Flat(p[1]) }

TotalElements == Cardinality(Positions)

\* C12: get_remaining_weights_number() returns the number of nonzero
\* entries of all mask tensors and is a pure query: the call changes
\* neither the mask nor the weights nor any counter; on a freshly
\* constructed PruningRun it returns the element count of all mask tensors.
C12_RemainingIsPureCount ==
    /\ []( (op = "get_remaining_weights_number" /\ pc = "done") =>
            /\ result = Cardinality({ p \in Positions :
                                        mask[p[1]][p[2]] # 0 })
            /\ (mask = WeightMask(shape) => result = TotalElements) )
    /\ [][ op' = "get_remaining_weights_number" =>
            UNCHANGED <<mask, weights, compiled, number_of_pruned_values,
                        epoch, artifacts, model_path, shape>> ]_vars

\* the query has returned 1, after pruning calls that left one entry of
\* the masks nonzero
C12_Witness ==
    /\ op = "get_remaining_weights_number" /\ pc = "done"
    /\ result = 1

\* C17: in prune_layer every fit is called on a compiled model, the final
\* fit too when the loop accepted nothing and the loaded model carried no
\* compiled state: fit never raises for want of a compile.
C17_FitOnCompiledModel ==
    /\ pc \in {"pl_fit", "pl_epoch_end", "final_fit", "final_epoch_end"}
          => compiled
    /\ ~(pc = "error" /\ result = "fit on uncompiled model")

\* the pruning loop is at the top of an iteration
AtLoopHead == pc \in {"pl_loop", "nr_loop"}

\* the flat position of the entry the iteration selects, and its magnitude
Selected == ravel(prune_index(weights, layer_index), ShapeOf(layer_index))
SelectedValue == Abs(weights[layer_index][Selected])

\* C13: acceptance policy.  In both loops an iteration prunes the selected
\* position (mask entry and weight become 0, the loop goes on) if and only
\* if 0 < pruned_value < threshold and fewer positions than the layer has
\* elements were pruned in this call; otherwise the loop stops and the
\* iteration leaves mask and weights as they were.
C13_AcceptancePolicy ==
    [][ AtLoopHead =>
          IF /\ 0 < SelectedValue /\ SelectedValue < threshold
             /\ number_of_pruned_values < Cardinality(Flat(layer_index))
          THEN /\ mask'[layer_index][Selected] = 0
               /\ weights'[layer_index][Selected] = 0
               /\ \A k \in Flat(layer_index) :
                     k # Selected =>
                        mask'[layer_index][k] = mask[layer_index][k]
               /\ \/ pc = "pl_loop" /\ pc' = "pl_fit"
                  \/ /\ pc = "nr_loop" /\ pc' = "nr_loop"
                     /\ number_of_pruned_values' = number_of_pruned_values + 1
          ELSE /\ mask' = mask /\ weights' = weights
               /\ pc' \in {"final_fit", "done", "error"}
      ]_vars

\* prune_layer has pruned once and has then left the loop on a weight whose
\* magnitude equals the threshold
C13_Witness ==
    /\ op = "prune_layer" /\ pc = "final_fit" /\ epoch = 0
    /\ number_of_pruned_values = 1
    /\ SelectedValue = threshold

\* row-major order of two multi-indices of the same tensor
RowMajorLeq(a, b) ==
    IF Len(a) = 1 THEN a[1] <= b[1]
    ELSE a[1] < b[1] \/ (a[1] = b[1] /\ a[2] <= b[2])

\* C14: candidate selection.  In every iteration in which the layer has a
\* nonzero weight, the selected position holds a nonzero weight whose
\* magnitude is the smallest among the nonzero weights of the layer, and
\* among the positions of that magnitude it is the first in row-major
\* order.
C14_CandidateSelection ==
    (AtLoopHead /\ \E j \in Flat(layer_index) : weights[layer_index][j] # 0)
    =>
        /\ weights[layer_index][Selected] # 0
        /\ \A j \in Flat(layer_index) :
              weights[layer_index][j] # 0 =>
                \/ SelectedValue < Abs(weights[layer_index][j])
                \/ /\ SelectedValue = Abs(weights[layer_index][j])
                   /\ RowMajorLeq(prune_index(weights, layer_index),
                                  unravel_index(j, ShapeOf(layer_index)))

\* a 2x2 layer after one pruning step: the second row holds two negative
\* weights of the same smallest magnitude, the first of them is selected
C14_Witness ==
    /\ op = "prune_layer_no_retraining" /\ pc = "nr_loop"
    /\ number_of_pruned_values = 1
    /\ ShapeOf(layer_index) = <<2, 2>>
    /\ weights[layer_index][2] = -25 /\ weights[layer_index][3] = -25
    /\ weights[layer_index][1] = 30
    /\ prune_index(weights, layer_index) = <<1, 0>>

\* nonzero mask entries lost since the call began
DropInCall ==
    get_remaining_weights_number(entry.mask)
        - get_remaining_weights_number(mask)

\* C15: the candidate is an unpruned entry.  In prune_layer and
\* prune_layer_no_retraining, after any earlier calls, a position accepted
\* for pruning has mask entry 1 at that moment, so every accepted iteration
\* lowers get_remaining_weights_number() by exactly one, and whenever the
\* loop is at the top of an iteration and when the call returns,
\* number_of_pruned_values equals the drop of
\* get_remaining_weights_number() over the call.
C15_CandidateUnpruned ==
    /\ [][ (AtLoopHead /\ mask' # mask) =>
             /\ mask[layer_index][Selected] = 1
             /\ get_remaining_weights_number(mask')
                   = get_remaining_weights_number(mask) - 1 ]_vars
    /\ []( (InLoopCall /\ pc \in {"pl_loop", "nr_loop", "final_fit", "done"})
             => number_of_pruned_values = DropInCall )

\* prune_layer has returned after two accepted steps with retraining, on a
\* mask that earlier calls had pruned in
C15_Witness ==
    /\ op = "prune_layer" /\ pc = "done"
    /\ epochs = 1
    /\ number_of_pruned_values = 2
    /\ get_remaining_weights_number(mask) = 1

\* C16: a weight that is exactly 0, pruned or not, is never selected.  An
\* iteration of either loop leaves the mask entry of every position whose
\* weight is 0 as it is; when every weight of the layer is 0 the iteration
\* accepts nothing and leaves the loop; over a prune_layer_no_retraining
\* call the mask entry of a position whose weight was 0 at the call is
\* unchanged.
C16_ZeroNeverSelected ==
    /\ [][ AtLoopHead =>
             /\ \A k \in Flat(layer_index) :
                   weights[layer_index][k] = 0 =>
                      mask'[layer_index][k] = mask[layer_index][k]
             /\ (\A k \in Flat(layer_index) : weights[layer_index][k] = 0) =>
                   /\ mask' = mask /\ weights' = weights
                   /\ pc' \in {"final_fit", "done", "error"} ]_vars
    /\ []( (op = "prune_layer_no_retraining" /\ pc = "done") =>
             \A k \in Flat(layer_index) :
                entry.weights[layer_index][k] = 0 =>
                   mask[layer_index][k] = entry.mask[layer_index][k] )

\* a call has pruned in a layer that holds a weight that is 0 without
\* having been pruned, and has left that position unpruned
C16_Witness ==
    /\ op = "prune_layer_no_retraining" /\ pc = "done"
    /\ number_of_pruned_values >= 1
    /\ \E k \in Flat(layer_index) :
          entry.weights[layer_index][k] = 0 /\ mask[layer_index][k] = 1

\* C18: the budget guard never decides.  Whenever the loop of prune_layer
\* or prune_layer_no_retraining is at the top of an iteration with
\* number_of_pruned_values equal to the layer's element count, every weight
\* of the layer is 0; an iteration that stops the loop stops it because
\* 0 < pruned_value < threshold is false.
C18_BudgetNeverDecides ==
    AtLoopHead =>
        /\ number_of_pruned_values = Cardinality(Flat(layer_index)) =>
              \A k \in Flat(layer_index) : weights[layer_index][k] = 0
        /\ ~Accepted => ~(0 < SelectedValue /\ SelectedValue < threshold)

\* prune_layer with retraining has pruned every position of the first layer
C18_Witness ==
    /\ op = "prune_layer" /\ pc = "pl_loop"
    /\ layer_index = 0 /\ epochs = 1
    /\ number_of_pruned_values = Cardinality(Flat(0))

\* the running call repeats the call that returned just before it
Repeated ==
    /\ op = "prune_layer_no_retraining"
    /\ \E r \in last :
          r.layer_index = layer_index /\ r.threshold = threshold

\* C19: prune_layer_no_retraining is idempotent.  A second call with the
\* same layer_index and threshold right after a first one accepts nothing,
\* returns with mask and weights as the first call left them and saves to
\* the path the first call saved to.
C19_NoRetrainingIdempotent ==
    Repeated =>
        /\ number_of_pruned_values = 0
        /\ mask = entry.mask /\ weights = entry.weights
        /\ pc = "done" =>
              /\ Len(artifacts) = 1
              /\ \A r \in last : artifacts[1].path = r.path

\* the second of two equal calls has returned; the first one had pruned
C19_Witness ==
    /\ Repeated /\ pc = "done"
    /\ \E k \in Flat(layer_index) : mask[layer_index][k] = 0
    /\ \E k \in Flat(layer_index) : mask[layer_index][k] = 1

====
